---- MODULE Spec2Model ----
(***************************************************************************)
(* LoopSplitterInlining (src/src/compiler/LoopSplitterInlining.cpp).       *)
(*                                                                         *)
(* One invocation of the pass on a function K of a small module, as a      *)
(* sequential state machine: the entry point, the choice of scope, the     *)
(* transitive splitter-caller finder and the restart-on-change scan of the *)
(* inliner, one step per visited instruction.                              *)
(*                                                                         *)
(* An instruction is a string: the name of a function for a direct call    *)
(* (CallBase with getCalledFunction() != nullptr), "ind" for an indirect   *)
(* call and "op" for any instruction that is no call.                      *)
(*                                                                         *)
(* The last section models the parallel std::copy_if entry point           *)
(* (src/include/hipSYCL/std/stdpar/pstl-impl/algorithm.hpp), specification *)
(* SpecCopyIf.                                                             *)
(***************************************************************************)
EXTENDS Integers, Sequences, FiniteSets, TLC

\* ------------------------------------------------------------------ bounds
\* Longest input range handed to std::copy_if.
MaxLen == 3
\* Recursion depth the finder may reach before the run counts as diverged.
MaxDepth == 6
\* Number of pass invocations on the same function (the second one runs on
\* the output of the first).
MaxRuns == 2
\* Steps one invocation may take.
MaxSteps == 100

\* ------------------------------------------------------------ the module
Kernel == "K"
BarrierIntrinsicName == "bar"
Intrinsics == {"intr"}
Helpers == {"A", "B", "S", "bar", "intr"}
Funcs == Helpers \cup {Kernel}

\* The splitter annotation of the module: S is a user-named barrier, bar the
\* canonical barrier intrinsic.
SplitterFuncs == {"S", "bar"}

\* Bodies (sequences of blocks, a block a sequence of instructions) the
\* helper functions are drawn from. <<>> is a declaration without a body.
BodiesA == { <<<<"B">>>>, <<<<"S">>>>, <<<<"B", "B">>>>, <<<<"S">>, <<"B">>>>,
             <<<<"op">>>>, <<<<"A">>>> }
BodiesB == { <<>>, <<<<"S">>>>, <<<<"A">>>>, <<<<"bar", "intr">>>> }
BodiesS == { <<>>, <<<<"B">>>> }

\* Blocks of the function the pass runs on: b1 and b2 are the blocks of its
\* loop when it has one, b3 follows the loop.
SeqsUpTo2(S) == {<<>>} \cup {<<x>> : x \in S} \cup {<<x, y>> : x \in S, y \in S}
BlocksB1 == SeqsUpTo2({"A", "S", "ind"})
BlocksB2 == { <<>>, <<"B">> }
BlocksB3 == { <<>>, <<"A">> }

VARIABLES
    fbody,          \* bodies of the helper functions of the module
    splitters,      \* SplitterAnnotationInfo: the functions annotated as splitter
    isKernel,       \* SplitterAnnotationInfo: is K annotated as kernel
    noInline,       \* callees llvm::InlineFunction refuses to inline
    loopKind,       \* LoopInfo of K: "none" | "wi" | "other"
    entry,          \* "legacy" (runOnFunction) | "new" (run)
    blocks,         \* body of K: sequence of [id, ins, lp]
    nextId,         \* next fresh block identity
    pc,             \* "start" | "scan" | "done" | "diverged"
    scope,          \* "none" | "loop" | "func"
    SplitterCallers,\* the set the finder filled
    L,              \* the loop handle: identities of the loop's blocks
    bi, ii,         \* cursor: block of the scope, instruction of the block
    bbChanged,      \* Changed of inlineCallsInBasicBlock
    Changed,        \* Changed of inlineCallsInLoop / inlineCallsInFunction
    ret,            \* "pending" | "false" | "true" | "all" | "saa"
    warned,         \* functions the finder warned about
    run,            \* number of the current invocation
    entryBlocks,    \* body of K when the current invocation started
    didInline,      \* an inline succeeded in the current invocation
    didReplace,     \* a barrier call was replaced in the current invocation
    steps,          \* steps the current invocation has taken
    input,          \* std::copy_if: the elements of [first, last)
    pred,           \* std::copy_if: the values the predicate accepts
    d_first,        \* std::copy_if: position in the destination
    d_last,         \* std::copy_if: the iterator that is returned
    cpc             \* std::copy_if: "idle" | "entry" | "advanced" | "copied" | "returned"

\* the variables of the inlining pass, and those of the stdpar entry point
passVars == <<fbody, splitters, isKernel, noInline, loopKind, entry, blocks, nextId,
              pc, scope, SplitterCallers, L, bi, ii, bbChanged, Changed, ret,
              warned, run, entryBlocks, didInline, didReplace, steps>>

stdparVars == <<input, pred, d_first, d_last, cpc>>

vars == <<passVars, stdparVars>>

config == <<fbody, splitters, isKernel, noInline, loopKind, entry>>

\* ------------------------------------------------------------- helpers
RECURSIVE Flatten(_)
Flatten(bs) == IF bs = <<>> THEN <<>> ELSE Head(bs) \o Flatten(Tail(bs))

Ins(bs) == [i \in 1..Len(bs) |-> bs[i].ins]

BodyOf(f) == IF f = Kernel THEN Ins(blocks) ELSE fbody[f]

\* llvm::CallBase::getCalledFunction() != nullptr
HasCalledFunction(i) == i \in Funcs

\* SplitterAnnotationInfo::isSplitterFunc / isKernelFunc
isSplitterFunc(f) == f \in splitters
isKernelFunc(f) == f = Kernel /\ isKernel

isDeclaration(f) == BodyOf(f) = <<>>
isIntrinsic(f) == f \in Intrinsics

\* utils::getSingleWorkItemLoop(LI) != nullptr, utils::isWorkItemLoop(*L)
getSingleWorkItemLoop == loopKind # "none"
isWorkItemLoop == loopKind = "wi"

\* Loop::getBlocks() of the loop of K as LoopInfo computes it from the body
RECURSIVE LoopBlocksOf(_)
LoopBlocksOf(bs) ==
    IF bs = <<>> THEN <<>>
    ELSE IF Head(bs).lp THEN <<Head(bs).id>> \o LoopBlocksOf(Tail(bs))
    ELSE LoopBlocksOf(Tail(bs))

\* ------------------------------------------------------------- finder
RECURSIVE fillInstrs(_, _, _, _)
RECURSIVE fillFunction(_, _, _, _)

\* Mutant of fillInstrs: Found takes the result of the last call instead of
\* being set once a call returned true.
fillInstrs_LastResult(ins, i, st, fuel) ==
    IF i > Len(ins) \/ st.ovf THEN st
    ELSE IF HasCalledFunction(ins[i])
         THEN LET r == fillFunction(ins[i], st.set, st.warn, fuel)
              IN  fillInstrs(ins, i + 1,
                             [found |-> r.found, set |-> r.set,
                              warn |-> r.warn, ovf |-> r.ovf], fuel)
         ELSE fillInstrs(ins, i + 1, st, fuel)

\* fillTransitiveSplitterCallers(Blocks, SAA, FuncsWSplitter): every call of
\* every block is visited in order; st = [found, set, warn, ovf]
fillInstrs(ins, i, st, fuel) ==
    IF i > Len(ins) \/ st.ovf THEN st
    ELSE IF HasCalledFunction(ins[i])
         THEN LET r == fillFunction(ins[i], st.set, st.warn, fuel)
              IN  fillInstrs(ins, i + 1,
                             [found |-> st.found \/ r.found, set |-> r.set,
                              warn |-> r.warn, ovf |-> r.ovf], fuel)
         ELSE fillInstrs(ins, i + 1, st, fuel)

fillBlocks(bs, set, warn, fuel) ==
    fillInstrs(Flatten(bs), 1,
               [found |-> FALSE, set |-> set, warn |-> warn, ovf |-> FALSE], fuel)

\* Mutant of fillFunction: F is inserted and reported whether or not a call of
\* its body reached a splitter.
fillFunction_InsertAlways(f, set, warn, fuel) ==
    IF fuel = 0
    THEN [found |-> FALSE, set |-> set, warn |-> warn, ovf |-> TRUE]
    ELSE IF isSplitterFunc(f) \/ f \in set
    THEN [found |-> TRUE, set |-> set \cup {f}, warn |-> warn, ovf |-> FALSE]
    ELSE LET r == fillBlocks(BodyOf(f), set, warn, fuel - 1)
         IN  [r EXCEPT !.found = ~r.ovf, !.set = r.set \cup {f}]

\* Mutant of fillFunction: a caller whose body reached a splitter reports it
\* but is not inserted, so the set holds the splitters alone.
fillFunction_NoInsertCaller(f, set, warn, fuel) ==
    IF fuel = 0
    THEN [found |-> FALSE, set |-> set, warn |-> warn, ovf |-> TRUE]
    ELSE IF isSplitterFunc(f)
    THEN [found |-> TRUE, set |-> set \cup {f}, warn |-> warn, ovf |-> FALSE]
    ELSE fillBlocks(BodyOf(f), set, warn, fuel - 1)

\* Mutant of fillFunction: F is inserted before its body is walked, which
\* ends the walk of a cycle at the second visit of F.
fillFunction_InsertBeforeBody(f, set, warn, fuel) ==
    LET w == IF isDeclaration(f) /\ ~isIntrinsic(f) THEN warn \cup {f} ELSE warn
    IN  IF fuel = 0
        THEN [found |-> FALSE, set |-> set, warn |-> w, ovf |-> TRUE]
        ELSE IF isSplitterFunc(f)
        THEN [found |-> TRUE, set |-> set \cup {f}, warn |-> w, ovf |-> FALSE]
        ELSE IF f \in set
        THEN [found |-> TRUE, set |-> set, warn |-> w, ovf |-> FALSE]
        ELSE LET r == fillBlocks(BodyOf(f), set \cup {f}, w, fuel - 1)
             IN  IF r.ovf THEN r
                 ELSE IF r.found
                 THEN [found |-> TRUE, set |-> r.set, warn |-> r.warn,
                       ovf |-> FALSE]
                 ELSE [found |-> FALSE, set |-> r.set \ {f}, warn |-> r.warn,
                       ovf |-> FALSE]

\* Mutant of fillFunction: a declaration that is no intrinsic is warned about
\* and given up, before its annotation is looked at.
fillFunction_DeclarationGivenUp(f, set, warn, fuel) ==
    LET w == IF isDeclaration(f) /\ ~isIntrinsic(f) THEN warn \cup {f} ELSE warn
    IN  IF fuel = 0
        THEN [found |-> FALSE, set |-> set, warn |-> w, ovf |-> TRUE]
        ELSE IF isDeclaration(f) /\ ~isIntrinsic(f)
        THEN [found |-> FALSE, set |-> set, warn |-> w, ovf |-> FALSE]
        ELSE IF isSplitterFunc(f)
        THEN [found |-> TRUE, set |-> set \cup {f}, warn |-> w, ovf |-> FALSE]
        ELSE IF f \in set
        THEN [found |-> TRUE, set |-> set, warn |-> w, ovf |-> FALSE]
        ELSE LET r == fillBlocks(BodyOf(f), set, w, fuel - 1)
             IN  IF r.ovf THEN r
                 ELSE IF r.found
                 THEN [found |-> TRUE, set |-> r.set \cup {f}, warn |-> r.warn,
                       ovf |-> FALSE]
                 ELSE [found |-> FALSE, set |-> r.set, warn |-> r.warn,
                       ovf |-> FALSE]

\* fillTransitiveSplitterCallers(F, SAA, FuncsWSplitter); ovf: the recursion
\* went deeper than MaxDepth frames (it never returns)
fillFunction(f, set, warn, fuel) ==
    LET w == IF isDeclaration(f) /\ ~isIntrinsic(f) THEN warn \cup {f} ELSE warn
    IN  IF fuel = 0
        THEN [found |-> FALSE, set |-> set, warn |-> w, ovf |-> TRUE]
        ELSE IF isSplitterFunc(f)
        THEN [found |-> TRUE, set |-> set \cup {f}, warn |-> w, ovf |-> FALSE]
        ELSE IF f \in set
        THEN [found |-> TRUE, set |-> set, warn |-> w, ovf |-> FALSE]
        ELSE LET r == fillBlocks(BodyOf(f), set, w, fuel - 1)
             IN  IF r.ovf THEN r
                 ELSE IF r.found
                 THEN [found |-> TRUE, set |-> r.set \cup {f}, warn |-> r.warn,
                       ovf |-> FALSE]
                 ELSE [found |-> FALSE, set |-> r.set, warn |-> r.warn,
                       ovf |-> FALSE]

\* fillTransitiveSplitterCallers(L, SAA, FuncsWSplitter)
fillLoop(ids) ==
    LET bs == [k \in 1..Len(ids) |->
                  (CHOOSE b \in {blocks[j] : j \in 1..Len(blocks)} : b.id = ids[k]).ins]
    IN  fillBlocks(bs, {}, {}, MaxDepth)

\* ----------------------------------------------------------------- init
Init ==
    /\ fbody \in { [f \in Helpers |->
                      CASE f = "A" -> a [] f = "B" -> b [] f = "S" -> s
                        [] OTHER -> <<>>] :
                   a \in BodiesA, b \in BodiesB, s \in BodiesS }
    /\ splitters = SplitterFuncs
    /\ isKernel \in BOOLEAN
    /\ noInline \in { {}, {"A"} }
    /\ loopKind \in {"none", "wi", "other"}
    /\ entry \in {"legacy", "new"}
    /\ \E b1 \in BlocksB1, b2 \in BlocksB2, b3 \in BlocksB3 :
          blocks = << [id |-> 1, ins |-> b1, lp |-> loopKind # "none"],
                      [id |-> 2, ins |-> b2, lp |-> loopKind # "none"],
                      [id |-> 3, ins |-> b3, lp |-> FALSE] >>
    /\ nextId = 4
    /\ pc = "start"
    /\ scope = "none"
    /\ SplitterCallers = {}
    /\ L = <<>>
    /\ bi = 0 /\ ii = 0
    /\ bbChanged = FALSE /\ Changed = FALSE
    /\ ret = "pending"
    /\ warned = {}
    /\ run = 1
    /\ entryBlocks = blocks
    /\ didInline = FALSE /\ didReplace = FALSE
    /\ steps = 0
    /\ input = <<>> /\ pred = {} /\ d_first = 1 /\ d_last = 0 /\ cpc = "idle"

\* ------------------------------------------------------------ IR edits
PosOf(bs, id) == CHOOSE j \in 1..Len(bs) : bs[j].id = id

\* utils::createBarrier(CallI, SAA): one call of the canonical barrier
\* intrinsic is inserted right before instruction i
createBarrier(ins, i) ==
    SubSeq(ins, 1, i - 1) \o <<BarrierIntrinsicName>> \o SubSeq(ins, i, Len(ins))

\* Mutant of eraseFromParent: the original call is not erased.
eraseFromParent_Skipped(ins, i) == ins

\* Instruction::eraseFromParent() of instruction i
eraseFromParent(ins, i) == SubSeq(ins, 1, i - 1) \o SubSeq(ins, i + 1, Len(ins))

\* does utils::checkedInlineFunction(CallI, ...) succeed for this callee
checkedInlineFunction(callee) ==
    /\ ~isIntrinsic(callee)
    /\ callee # BarrierIntrinsicName
    /\ ~isDeclaration(callee)
    /\ callee \notin noInline

\* llvm::InlineFunction on instruction i of block p: a callee of one block is
\* spliced into the calling block; otherwise the calling block is split at
\* the call, the callee's entry block joins the head, its last block the
\* tail, and the blocks between are placed in between. New blocks belong to
\* the loop the calling block belongs to.
InlineFunction(bs, p, i, callee, fresh) ==
    LET cb   == BodyOf(callee)
        n    == Len(cb)
        b    == bs[p]
        pre  == SubSeq(b.ins, 1, i - 1)
        post == SubSeq(b.ins, i + 1, Len(b.ins))
        new  == IF n = 1
                THEN << [b EXCEPT !.ins = pre \o cb[1] \o post] >>
                ELSE << [b EXCEPT !.ins = pre \o cb[1]] >>
                     \o [k \in 1..(n - 2) |->
                            [id |-> fresh + k - 1, ins |-> cb[k + 1], lp |-> b.lp]]
                     \o << [id |-> fresh + n - 2, ins |-> cb[n] \o post, lp |-> b.lp] >>
    IN  SubSeq(bs, 1, p - 1) \o new \o SubSeq(bs, p + 1, Len(bs))

\* utils::updateDtAndLi(LI, DT, B, F): the loop of the header B, recomputed
updateDtAndLi(bs) == LoopBlocksOf(bs)

\* --------------------------------------------------------------- driver
\* Mutant of Returned: run() hands back the preserved set of a change
\* whatever inlineSplitter returned.
Returned_NeverAll(changed) ==
    IF entry = "legacy" THEN (IF changed THEN "true" ELSE "false")
    ELSE "saa"

\* the value the entry point hands back for inlineSplitter's result
Returned(changed) ==
    IF entry = "legacy" THEN (IF changed THEN "true" ELSE "false")
    ELSE (IF changed THEN "saa" ELSE "all")

Return(changed) ==
    /\ pc' = "done"
    /\ ret' = Returned(changed)

\* what follows the finder: diverged, nothing found, or the inliner starts
AfterFinder(r, sc) ==
    /\ scope' = sc
    /\ SplitterCallers' = r.set
    /\ warned' = r.warn
    /\ IF r.ovf
       THEN pc' = "diverged" /\ UNCHANGED <<ret, bi, ii>>
       ELSE IF ~r.found
       THEN Return(FALSE) /\ UNCHANGED <<bi, ii>>
       ELSE pc' = "scan" /\ bi' = 1 /\ ii' = 1 /\ UNCHANGED ret
    /\ UNCHANGED <<config, blocks, nextId, bbChanged, Changed, run,
                   entryBlocks, didInline, didReplace>>

\* Mutant of NotWorkItemLoop: a loop that is no work-item loop sends the pass
\* to the whole function.
NotWorkItemLoop_FallsBack ==
    /\ pc = "start"
    /\ steps' = steps + 1
    /\ isKernelFunc(Kernel)
    /\ getSingleWorkItemLoop
    /\ ~isWorkItemLoop
    /\ L' = <<>>
    /\ AfterFinder(fillFunction(Kernel, {}, {}, MaxDepth), "func")

\* inlineSplitter(Loop *): if (!isWorkItemLoop(*L)) return false
NotWorkItemLoop ==
    /\ pc = "start"
    /\ steps' = steps + 1
    /\ isKernelFunc(Kernel)
    /\ getSingleWorkItemLoop
    /\ ~isWorkItemLoop
    /\ scope' = "loop"
    /\ L' = LoopBlocksOf(blocks)
    /\ Return(FALSE)
    /\ UNCHANGED <<config, blocks, nextId, SplitterCallers, bi, ii,
                   bbChanged, Changed, warned, run, entryBlocks, didInline, didReplace>>

\* inlineSplitter(Loop *) on a work-item loop: the finder on the loop's blocks
FindInLoop ==
    /\ pc = "start"
    /\ steps' = steps + 1
    /\ isKernelFunc(Kernel)
    /\ getSingleWorkItemLoop
    /\ isWorkItemLoop
    /\ L' = LoopBlocksOf(blocks)
    /\ AfterFinder(fillLoop(LoopBlocksOf(blocks)), "loop")

\* inlineSplitter(Function &) without a single work-item loop: the finder on F
FindInFunction ==
    /\ pc = "start"
    /\ steps' = steps + 1
    /\ isKernelFunc(Kernel)
    /\ ~getSingleWorkItemLoop
    /\ L' = <<>>
    /\ AfterFinder(fillFunction(Kernel, {}, {}, MaxDepth), "func")

\* Mutant of SkipNonKernel: the kernel check is missing and the function is
\* handed to inlineSplitter.
SkipNonKernel_NoCheck ==
    /\ pc = "start"
    /\ steps' = steps + 1
    /\ ~isKernelFunc(Kernel)
    /\ L' = <<>>
    /\ AfterFinder(fillFunction(Kernel, {}, {}, MaxDepth), "func")

\* runOnFunction / run: if (!SAA.isKernelFunc(&F)) return false / all().
\* run() takes the same exit when no SplitterAnnotationAnalysis is cached
\* (if (!SAA) return all()): without the oracle nothing is classified as a
\* kernel, which isKernel = FALSE stands for.
SkipNonKernel ==
    /\ pc = "start"
    /\ steps' = steps + 1
    /\ ~isKernelFunc(Kernel)
    /\ Return(FALSE)
    /\ UNCHANGED <<config, blocks, nextId, scope, SplitterCallers, L, bi, ii,
                   bbChanged, Changed, warned, run, entryBlocks, didInline, didReplace>>

\* -------------------------------------------------------------- inliner
\* Mutant of ScopeIds: the scan iterates the blocks of F in loop scope too.
ScopeIds_AllBlocks == [k \in 1..Len(blocks) |-> blocks[k].id]

\* the blocks the scan iterates: L->getBlocks(), or the blocks of F
ScopeIds ==
    IF scope = "loop" THEN L ELSE [k \in 1..Len(blocks) |-> blocks[k].id]

cur == PosOf(blocks, ScopeIds[bi])

\* Mutant of WantsInline: the test that the target is no splitter is missing.
WantsInline_SplittersToo(c) ==
    /\ HasCalledFunction(c)
    /\ c \in SplitterCallers

\* first branch of inlineCallsInBasicBlock: the call is to be inlined
WantsInline(c) ==
    /\ HasCalledFunction(c)
    /\ c \in SplitterCallers
    /\ ~isSplitterFunc(c)

\* Mutant of WantsBarrier: the name of the target is not compared with the
\* name of the canonical intrinsic.
WantsBarrier_AnyName(c) ==
    /\ HasCalledFunction(c)
    /\ ~WantsInline(c)
    /\ isSplitterFunc(c)

\* second branch: the call is a barrier that is not yet the intrinsic
WantsBarrier(c) ==
    /\ HasCalledFunction(c)
    /\ ~WantsInline(c)
    /\ isSplitterFunc(c)
    /\ c # BarrierIntrinsicName

\* Mutant of ScanInline: the blocks of the callee are moved into the caller
\* instead of copied, which leaves the callee without a body.
ScanInline_MovesBody ==
    /\ pc = "scan"
    /\ steps' = steps + 1
    /\ ii <= Len(blocks[cur].ins)
    /\ LET c == blocks[cur].ins[ii]
       IN  /\ WantsInline(c)
           /\ checkedInlineFunction(c)
           /\ blocks' = InlineFunction(blocks, cur, ii, c, nextId)
           /\ nextId' = nextId + (IF Len(BodyOf(c)) > 1 THEN Len(BodyOf(c)) - 1 ELSE 0)
           /\ fbody' = [fbody EXCEPT ![c] = <<>>]
    /\ bbChanged' = TRUE
    /\ ii' = 1
    /\ didInline' = TRUE
    /\ UNCHANGED <<splitters, isKernel, noInline, loopKind, entry, pc, scope,
                   SplitterCallers, L, bi, Changed, ret, warned, run,
                   entryBlocks, didReplace>>

\* inlineCallsInBasicBlock, for (auto &I : BB): the call is inlined; break
ScanInline ==
    /\ pc = "scan"
    /\ steps' = steps + 1
    /\ ii <= Len(blocks[cur].ins)
    /\ LET c == blocks[cur].ins[ii]
       IN  /\ WantsInline(c)
           /\ checkedInlineFunction(c)
           /\ blocks' = InlineFunction(blocks, cur, ii, c, nextId)
           /\ nextId' = nextId + (IF Len(BodyOf(c)) > 1 THEN Len(BodyOf(c)) - 1 ELSE 0)
    /\ bbChanged' = TRUE
    /\ ii' = 1
    /\ didInline' = TRUE
    /\ UNCHANGED <<config, pc, scope, SplitterCallers, L, bi, Changed, ret,
                   warned, run, entryBlocks, didReplace>>

\* the inline was refused: LastChanged stays false and the scan goes on
ScanInlineFailed ==
    /\ pc = "scan"
    /\ steps' = steps + 1
    /\ ii <= Len(blocks[cur].ins)
    /\ LET c == blocks[cur].ins[ii]
       IN  WantsInline(c) /\ ~checkedInlineFunction(c)
    /\ ii' = ii + 1
    /\ UNCHANGED <<config, blocks, nextId, pc, scope, SplitterCallers, L, bi,
                   bbChanged, Changed, ret, warned, run, entryBlocks, didInline, didReplace>>

\* the barrier call is replaced by the intrinsic and erased; break
ScanReplaceBarrier ==
    /\ pc = "scan"
    /\ steps' = steps + 1
    /\ ii <= Len(blocks[cur].ins)
    /\ WantsBarrier(blocks[cur].ins[ii])
    /\ blocks' = [blocks EXCEPT ![cur].ins =
                     eraseFromParent(createBarrier(blocks[cur].ins, ii), ii + 1)]
    /\ bbChanged' = TRUE
    /\ ii' = 1
    /\ didReplace' = TRUE
    /\ UNCHANGED <<config, nextId, pc, scope, SplitterCallers, L, bi, Changed,
                   ret, warned, run, entryBlocks, didInline>>

\* any other instruction is left alone
ScanSkip ==
    /\ pc = "scan"
    /\ steps' = steps + 1
    /\ ii <= Len(blocks[cur].ins)
    /\ LET c == blocks[cur].ins[ii]
       IN  ~WantsInline(c) /\ ~WantsBarrier(c)
    /\ ii' = ii + 1
    /\ UNCHANGED <<config, blocks, nextId, pc, scope, SplitterCallers, L, bi,
                   bbChanged, Changed, ret, warned, run, entryBlocks, didInline, didReplace>>

\* Mutant of BlockUnchanged: the scan of the scope ends at the first block
\* that needed no change.
BlockUnchanged_ReturnsAtFirst ==
    /\ pc = "scan"
    /\ steps' = steps + 1
    /\ ii > Len(blocks[cur].ins)
    /\ ~bbChanged
    /\ Return(Changed)
    /\ UNCHANGED <<config, blocks, nextId, scope, SplitterCallers, L, bi, ii,
                   bbChanged, Changed, warned, run, entryBlocks, didInline,
                   didReplace>>

\* inlineCallsInBasicBlock returned without a change in this block: the next
\* block of the scope, or the end of inlineCallsInLoop / inlineCallsInFunction
BlockUnchanged ==
    /\ pc = "scan"
    /\ steps' = steps + 1
    /\ ii > Len(blocks[cur].ins)
    /\ ~bbChanged
    /\ IF bi < Len(ScopeIds)
       THEN bi' = bi + 1 /\ ii' = 1 /\ UNCHANGED <<pc, ret>>
       ELSE Return(Changed) /\ UNCHANGED <<bi, ii>>
    /\ UNCHANGED <<config, blocks, nextId, scope, SplitterCallers, L, bbChanged,
                   Changed, warned, run, entryBlocks, didInline, didReplace>>

\* Mutant of BlockChanged: Changed is not set when a block scan changed the
\* block.
BlockChanged_ChangedNotSet ==
    /\ pc = "scan"
    /\ steps' = steps + 1
    /\ ii > Len(blocks[cur].ins)
    /\ bbChanged
    /\ L' = IF scope = "loop" THEN updateDtAndLi(blocks) ELSE L
    /\ bi' = 1 /\ ii' = 1
    /\ bbChanged' = FALSE
    /\ UNCHANGED <<config, blocks, nextId, pc, scope, SplitterCallers, ret,
                   Changed, warned, run, entryBlocks, didInline, didReplace>>

\* Mutant of BlockChanged: no outer do-while; the first changed block ends
\* the inliner.
BlockChanged_NoRestart ==
    /\ pc = "scan"
    /\ steps' = steps + 1
    /\ ii > Len(blocks[cur].ins)
    /\ bbChanged
    /\ Changed' = TRUE
    /\ L' = IF scope = "loop" THEN updateDtAndLi(blocks) ELSE L
    /\ bbChanged' = FALSE
    /\ Return(TRUE)
    /\ UNCHANGED <<config, blocks, nextId, scope, SplitterCallers, bi, ii,
                   warned, run, entryBlocks, didInline, didReplace>>

\* Mutant of BlockChanged: the loop handle is not replaced after the change.
BlockChanged_NoRefresh ==
    /\ pc = "scan"
    /\ steps' = steps + 1
    /\ ii > Len(blocks[cur].ins)
    /\ bbChanged
    /\ Changed' = TRUE
    /\ bi' = 1 /\ ii' = 1
    /\ bbChanged' = FALSE
    /\ UNCHANGED <<config, blocks, nextId, pc, scope, SplitterCallers, L, ret,
                   warned, run, entryBlocks, didInline, didReplace>>

\* Mutant of BlockChanged: the flag of the last scan is not cleared before
\* the next one.
BlockChanged_NoReset ==
    /\ pc = "scan"
    /\ steps' = steps + 1
    /\ ii > Len(blocks[cur].ins)
    /\ bbChanged
    /\ Changed' = TRUE
    /\ L' = IF scope = "loop" THEN updateDtAndLi(blocks) ELSE L
    /\ bi' = 1 /\ ii' = 1
    /\ UNCHANGED <<config, blocks, nextId, pc, scope, SplitterCallers, ret,
                   bbChanged, warned, run, entryBlocks, didInline, didReplace>>

\* inlineCallsInBasicBlock returned true: Changed is set, in loop scope the
\* analyses are updated and L replaced, and the scan restarts at the first block
BlockChanged ==
    /\ pc = "scan"
    /\ steps' = steps + 1
    /\ ii > Len(blocks[cur].ins)
    /\ bbChanged
    /\ Changed' = TRUE
    /\ L' = IF scope = "loop" THEN updateDtAndLi(blocks) ELSE L
    /\ bi' = 1 /\ ii' = 1
    /\ bbChanged' = FALSE
    /\ UNCHANGED <<config, blocks, nextId, pc, scope, SplitterCallers, ret,
                   warned, run, entryBlocks, didInline, didReplace>>

\* the pass manager runs the pass again on the function as it now is
Rerun ==
    /\ pc = "done"
    /\ run < MaxRuns
    /\ run' = run + 1
    /\ pc' = "start"
    /\ scope' = "none"
    /\ SplitterCallers' = {}
    /\ L' = <<>>
    /\ bi' = 0 /\ ii' = 0
    /\ bbChanged' = FALSE /\ Changed' = FALSE
    /\ ret' = "pending"
    /\ warned' = {}
    /\ entryBlocks' = blocks
    /\ didInline' = FALSE /\ didReplace' = FALSE
    /\ steps' = 0
    /\ UNCHANGED <<config, blocks, nextId>>

Next ==
    \/ SkipNonKernel
    \/ NotWorkItemLoop
    \/ FindInLoop
    \/ FindInFunction
    \/ ScanInline
    \/ ScanInlineFailed
    \/ ScanReplaceBarrier
    \/ ScanSkip
    \/ BlockUnchanged
    \/ BlockChanged
    \/ Rerun

\* the pass runs with no stdpar algorithm in flight
Spec == Init /\ [][Next /\ UNCHANGED stdparVars]_vars

\* ------------------------------------------------------- the call graph
\* The call graph of the module, for stating the claims; none of this is
\* used by the transitions above.
Range(seq) == {seq[k] : k \in 1..Len(seq)}

\* functions called directly by the instructions ins
CalledBy(ins) == Range(ins) \cap Funcs

\* functions called directly in the body of helper f
Calls(f) == IF f \in Helpers THEN CalledBy(Flatten(fbody[f])) ELSE {}

\* S and everything reachable from S by chains of direct calls
RECURSIVE Closure(_)
Closure(S) ==
    LET T == S \cup UNION {Calls(f) : f \in S}
    IN  IF T = S THEN S ELSE Closure(T)

\* the same, along chains that do not pass through the body of a splitter
RECURSIVE ClosureNS(_)
ClosureNS(S) ==
    LET T == S \cup UNION {Calls(f) : f \in S \ splitters}
    IN  IF T = S THEN S ELSE ClosureNS(T)

\* instructions of K when the invocation started: all, and those of the loop
EntryIns == Flatten(Ins(entryBlocks))
EntryLoopIns == Flatten(Ins(SelectSeq(entryBlocks, LAMBDA b : b.lp)))
NowIns == Flatten(Ins(blocks))
NowLoopIns == Flatten(Ins(SelectSeq(blocks, LAMBDA b : b.lp)))

\* no function reachable from K calls itself, directly or transitively
NonRecursive ==
    \A f \in Closure(CalledBy(EntryIns)) : f \notin Closure(Calls(f))

\* helper f is no splitter and a chain of calls leads from its body to one
ReachesSplitter(f) ==
    /\ f \in Helpers \ splitters
    /\ ClosureNS(Calls(f)) \cap splitters # {}

\* The instructions ins with every barrier call lowered to the intrinsic and
\* every call of a helper that reaches a splitter replaced by the lowered
\* body of the helper, at the place of the call.
RECURSIVE Lower(_)
Lower(ins) ==
    IF ins = <<>> THEN <<>>
    ELSE LET h == Head(ins)
         IN  (IF h \in splitters THEN <<BarrierIntrinsicName>>
              ELSE IF ReachesSplitter(h) THEN Lower(Flatten(fbody[h]))
              ELSE <<h>>) \o Lower(Tail(ins))

\* the invocation made no change and says so
NoChange ==
    /\ blocks = entryBlocks
    /\ ~didInline /\ ~didReplace
    /\ pc = "done" => ret = (IF entry = "legacy" THEN "false" ELSE "all")

\* --------------------------------------------------------------- claims
\* C1: for a function that is not classified as a kernel, either entry point
\* performs no inline and no barrier replacement, leaves the instructions as
\* they were and reports no change (false / all analyses preserved).
C1_NonKernelUntouched ==
    ~isKernelFunc(Kernel) =>
        /\ NoChange
        /\ pc \in {"start", "done"}
        /\ scope = "none"

C1_Witness ==
    /\ ~isKernelFunc(Kernel)
    /\ pc = "done"
    /\ ret = "all"
    /\ loopKind = "none"
    /\ "S" \in CalledBy(EntryIns)

\* C2: for a kernel with a non-recursive call graph in which no call reaches,
\* directly or transitively, a splitter-annotated function, the pass reports
\* no change and the blocks and instructions are unmodified.
C2_NoSplitterNoChange ==
    ( /\ isKernelFunc(Kernel)
      /\ NonRecursive
      /\ Closure(CalledBy(EntryIns)) \cap splitters = {} )
    => (NoChange /\ pc \in {"start", "done"})

C2_Witness ==
    /\ isKernelFunc(Kernel)
    /\ NonRecursive
    /\ Closure(CalledBy(EntryIns)) \cap splitters = {}
    /\ "A" \in CalledBy(EntryIns)
    /\ loopKind = "none"
    /\ pc = "done"
    /\ ret = "false"

\* C3 as stated: for a kernel without a work-item loop and with a call chain
\* K -> A -> B -> S, after the pass K holds no call to A and no call to B and
\* every barrier call stands lowered at the program point it reached.
ChainKABS ==
    /\ isKernelFunc(Kernel)
    /\ loopKind = "none"
    /\ run = 1
    /\ "A" \in CalledBy(EntryIns)
    /\ "B" \in Calls("A")
    /\ "S" \in Calls("B")

ChainInlined ==
    /\ "A" \notin CalledBy(NowIns)
    /\ "B" \notin CalledBy(NowIns)
    /\ NowIns = Lower(EntryIns)
    /\ BarrierIntrinsicName \in CalledBy(NowIns)

C4_SecondRunNoChange ==
    (isKernelFunc(Kernel) /\ run >= 2 /\ NonRecursive) => NoChange

C4_Witness ==
    /\ isKernelFunc(Kernel)
    /\ NonRecursive
    /\ run = 2
    /\ pc = "done"
    /\ nextId > 4
    /\ SplitterCallers # {}
    /\ BarrierIntrinsicName \in CalledBy(NowIns)

\* C5: with a single canonical work-item loop, only the blocks of the loop
\* are searched and rewritten: the blocks outside the loop stay as they were,
\* nothing the finder meets lies outside what the loop calls, and the
\* whole-function inliner is not run.
OutsideLoop(bs) == SelectSeq(bs, LAMBDA b : ~b.lp)

C5_LoopScopeOnly ==
    (isKernelFunc(Kernel) /\ loopKind = "wi") =>
        /\ scope # "func"
        /\ OutsideLoop(blocks) = OutsideLoop(entryBlocks)
        /\ SplitterCallers \subseteq Closure(CalledBy(EntryLoopIns))
        /\ warned \subseteq Closure(CalledBy(EntryLoopIns))

C5_Witness ==
    /\ isKernelFunc(Kernel)
    /\ loopKind = "wi"
    /\ pc = "done"
    /\ didInline
    /\ "A" \in SplitterCallers
    /\ "A" \in CalledBy(Flatten(Ins(OutsideLoop(blocks))))
    /\ "A" \notin CalledBy(NowLoopIns)

\* C6 as stated: kernel K, work-item loop L with a call to helper A, A calls
\* the splitter S: after the pass A is inlined into L, the call to S stands
\* lowered to the intrinsic inside L and the pass returns changed.
LoopHelper ==
    /\ isKernelFunc(Kernel)
    /\ loopKind = "wi"
    /\ run = 1
    /\ "A" \in CalledBy(EntryLoopIns)
    /\ "S" \in Calls("A")

LoopHelperInlined ==
    /\ "A" \notin CalledBy(NowLoopIns)
    /\ "S" \notin CalledBy(NowLoopIns)
    /\ BarrierIntrinsicName \in CalledBy(NowLoopIns)
    /\ NowLoopIns = Lower(EntryLoopIns)
    /\ ret \in {"true", "saa"}

InlinerEnded ==
    /\ pc = "done"
    /\ scope \in {"loop", "func"}
    /\ SplitterCallers # {}

ScopeIns ==
    Flatten([k \in 1..Len(ScopeIds) |-> blocks[PosOf(blocks, ScopeIds[k])].ins])

FinderReturned ==
    /\ isKernelFunc(Kernel)
    /\ loopKind # "other"
    /\ pc \in {"scan", "done"}

ScopeEntryIns == IF scope = "loop" THEN EntryLoopIns ELSE EntryIns

C8_Original ==
    (FinderReturned /\ NonRecursive) =>
        SplitterCallers =
            {f \in Closure(CalledBy(ScopeEntryIns)) :
                f \in splitters \/ Closure(Calls(f)) \cap splitters # {}}

\* C8 amended: the chains do not pass through the body of a splitter, and in
\* function scope the scope's own function is a member whenever the set is
\* not empty.
ReachedSplitterCallers ==
    {f \in ClosureNS(CalledBy(ScopeEntryIns)) :
        f \in splitters \/ ClosureNS(Calls(f)) \cap splitters # {}}

C8_FinderSet ==
    (FinderReturned /\ NonRecursive) =>
        SplitterCallers =
            ReachedSplitterCallers \cup
            (IF scope = "func" /\ ReachedSplitterCallers # {} THEN {Kernel} ELSE {})

C8_Witness ==
    /\ FinderReturned
    /\ NonRecursive
    /\ scope = "func"
    /\ fbody["S"] = <<<<"B">>>>
    /\ fbody["B"] = <<<<"bar", "intr">>>>
    /\ SplitterCallers = {"K", "A", "S"}

\* C9: over a call graph without recursion among the functions reachable from
\* the kernel, every invocation of the pass returns: the finder returns (the
\* run does not diverge), the scan cursor always stands on a block of the
\* scope so that a step can be taken, and the invocation takes at most
\* MaxSteps steps, each of which counts.
C9_Terminates ==
    NonRecursive =>
        /\ pc # "diverged"
        /\ steps <= MaxSteps
        /\ pc = "scan" => (bi \in 1..Len(ScopeIds) /\ ii \in 1..(Len(blocks[cur].ins) + 1))

C9_Witness ==
    /\ NonRecursive
    /\ isKernelFunc(Kernel)
    /\ pc = "done"
    /\ didInline /\ didReplace
    /\ nextId > 4

\* C10 as stated: a kernel falls back to the whole function both when there
\* is no single canonical loop and when the loop is no work-item loop.
C10_Original ==
    (isKernelFunc(Kernel) /\ loopKind \in {"none", "other"} /\ pc # "start")
    => scope = "func"

\* C10 amended: the fallback is taken only when there is no single canonical
\* loop; for a loop that is no work-item loop the pass returns no change
\* with neither finder nor inliner run.
C10_FallbackOnlyWithoutLoop ==
    (isKernelFunc(Kernel) /\ pc # "start") =>
        /\ loopKind = "none" => scope = "func"
        /\ loopKind = "other" =>
              /\ scope = "loop"
              /\ pc = "done"
              /\ NoChange
              /\ SplitterCallers = {} /\ warned = {}

C10_Witness ==
    /\ isKernelFunc(Kernel)
    /\ loopKind = "other"
    /\ pc = "done"
    /\ CalledBy(EntryIns) = {"A", "S"}
    /\ ret = "false"

\* the scan stands on an instruction of a block of the scope
CursorOnInstr == pc = "scan" /\ ii <= Len(blocks[cur].ins)
AtCursor == blocks[cur].ins[ii]

\* the body of K with the instruction under the cursor replaced by ins
ReplacedAtCursor(ins) ==
    [blocks EXCEPT ![cur].ins =
        SubSeq(blocks[cur].ins, 1, ii - 1) \o ins
        \o SubSeq(blocks[cur].ins, ii + 1, Len(blocks[cur].ins))]

\* C11: run() returns "all analyses preserved" exactly when the invocation
\* made no change to the function (no inline, no barrier replacement, the
\* body as it was), and otherwise the set that preserves the splitter
\* annotation analysis only.
C11_PreservedAnalyses ==
    (entry = "new" /\ pc = "done") =>
        /\ ret \in {"all", "saa"}
        /\ ret = "all" <=> blocks = entryBlocks
        /\ ret = "all" <=> (~didInline /\ ~didReplace)

C11_Witness ==
    /\ entry = "new"
    /\ pc = "done"
    /\ ret = "saa"
    /\ didReplace
    /\ blocks # entryBlocks

\* C12: no step of the inliner inlines a call whose target is annotated as
\* a splitter (the canonical barrier intrinsic included), member of the
\* splitter-caller set though it is: such a step changes the body, if at
\* all, by putting the canonical intrinsic in the place of the call.
C12_SplitterNeverInlined ==
    [][ (CursorOnInstr /\ HasCalledFunction(AtCursor) /\ isSplitterFunc(AtCursor)
         /\ AtCursor \in SplitterCallers) =>
            /\ didInline' = didInline
            /\ nextId' = nextId
            /\ blocks' \in {blocks, ReplacedAtCursor(<<BarrierIntrinsicName>>)} ]_vars

C12_Witness ==
    /\ pc = "done"
    /\ didInline
    /\ ~didReplace
    /\ fbody["S"] = <<<<"B">>>>
    /\ BarrierIntrinsicName \in SplitterCallers
    /\ BarrierIntrinsicName \in CalledBy(NowIns)
    /\ "S" \notin CalledBy(EntryIns)

\* number of calls of splitter-annotated functions in the body bs
NumSplitterCalls(bs) ==
    Len(SelectSeq(Flatten(Ins(bs)), LAMBDA i : i \in splitters))

\* C13: whenever the scan stands on a call whose target is annotated as a
\* splitter and is not named as the canonical barrier intrinsic, the step
\* puts exactly one call of the canonical intrinsic at that program point
\* and erases the original call: the number of barrier calls is unchanged.
C13_BarrierReplacedInPlace ==
    [][ (CursorOnInstr /\ HasCalledFunction(AtCursor) /\ isSplitterFunc(AtCursor)
         /\ AtCursor # BarrierIntrinsicName) =>
            /\ blocks' = ReplacedAtCursor(<<BarrierIntrinsicName>>)
            /\ NumSplitterCalls(blocks') = NumSplitterCalls(blocks)
            /\ didReplace' ]_vars

C13_Witness ==
    /\ pc = "done"
    /\ didReplace
    /\ ~didInline
    /\ EntryIns = <<"S", "ind">>
    /\ NowIns = <<BarrierIntrinsicName, "ind">>

\* C14: the boolean the pass returns is true if and only if at least one
\* inline succeeded or at least one barrier call was replaced during the
\* invocation; with every inline refused and no barrier replaced it is false.
PassReturnedTrue == ret \in {"true", "saa"}

C14_ChangedIffActed ==
    pc = "done" => (PassReturnedTrue <=> (didInline \/ didReplace))

C14_Witness ==
    /\ pc = "done"
    /\ scope = "func"
    /\ "A" \in SplitterCallers
    /\ ~checkedInlineFunction("A")
    /\ "A" \in CalledBy(NowIns)
    /\ ~didInline /\ ~didReplace
    /\ ret = "false"

\* number of occurrences of instruction x in the body bs
Count(x, bs) == Len(SelectSeq(Flatten(Ins(bs)), LAMBDA i : i = x))

\* the calls the inliner has to leave alone: indirect calls, calls whose
\* target is neither in the splitter-caller set nor a splitter, and calls of
\* the canonical barrier intrinsic
Untouchable ==
    {"ind", BarrierIntrinsicName} \cup (Funcs \ (SplitterCallers \cup splitters))

\* C15: a call that is indirect, or whose target is neither in the
\* splitter-caller set nor annotated as a splitter, or whose target is the
\* canonical barrier intrinsic, is neither inlined, replaced nor erased: the
\* step that scans it leaves the body alone and moves on, and no step lowers
\* the number of such calls in the body.
C15_OtherCallsUntouched ==
    [][ /\ (CursorOnInstr /\ AtCursor \in Untouchable) =>
              /\ blocks' = blocks
              /\ didInline' = didInline /\ didReplace' = didReplace
              /\ bbChanged' = bbChanged
              /\ ii' = ii + 1
        /\ pc = "scan" => \A x \in Untouchable : Count(x, blocks') >= Count(x, blocks) ]_vars

C15_Witness ==
    /\ pc = "done"
    /\ scope = "func"
    /\ didInline /\ ~didReplace
    /\ "A" \notin SplitterCallers
    /\ EntryIns = <<"ind", "A", "B">>
    /\ NowIns = <<"ind", "A", BarrierIntrinsicName, "intr">>

\* C16: in loop scope the loop handle is refreshed after every block scan
\* that changed the body and before the blocks are scanned again, so that
\* every block scan starts with the loop's blocks as they are, blocks created
\* by inlining included, and the inliner ends having scanned them all; in
\* function scope no refresh is performed and there is no loop handle.
C16_RefreshedBeforeRescan ==
    /\ (scope = "loop" /\ loopKind = "wi" /\ pc = "scan" /\ ~bbChanged) =>
            L = LoopBlocksOf(blocks)
    /\ (scope = "loop" /\ loopKind = "wi" /\ pc = "done") => L = LoopBlocksOf(blocks)
    /\ scope = "func" => L = <<>>

C16_Witness ==
    /\ scope = "loop"
    /\ pc = "scan"
    /\ ~bbChanged
    /\ Changed
    /\ nextId > 4
    /\ bi >= 2
    /\ L[bi] >= 4
    /\ ii > 1

\* sum of the values W gives the instructions ins
RECURSIVE SumOver(_, _)
SumOver(ins, W) ==
    IF ins = <<>> THEN 0 ELSE W[Head(ins)] + SumOver(Tail(ins), W)

\* the non-canonical members of the splitter-caller set
NonCanonical == SplitterCallers \ {BarrierIntrinsicName}

\* number of call sites among ins whose target is such a member
Sites(ins) == Len(SelectSeq(ins, LAMBDA i : i \in NonCanonical))

\* Work a call site of f stands for: nothing when f is no such member, one
\* replacement for a splitter, and otherwise one inline plus the work of the
\* call sites of the body of f. Defined on a call graph without recursion.
RECURSIVE Weight(_)
Weight(f) ==
    IF f \notin NonCanonical THEN 0
    ELSE IF f \in splitters THEN 1
    ELSE 1 + SumOver(Flatten(BodyOf(f)),
                     [g \in Range(Flatten(BodyOf(f))) |-> Weight(g)])

Measure(ins) == SumOver(ins, [g \in Range(ins) |-> Weight(g)])

\* the instructions of the scope as the body now is
ScopeNowIns == IF scope = "loop" THEN NowLoopIns ELSE NowIns
ScopeNextIns ==
    IF scope = "loop" THEN Flatten(Ins(SelectSeq(blocks', LAMBDA b : b.lp)))
    ELSE Flatten(Ins(blocks'))

\* the step inlines the call under the cursor
InlineStep ==
    /\ CursorOnInstr
    /\ blocks' # blocks
    /\ blocks' # ReplacedAtCursor(<<BarrierIntrinsicName>>)

\* C17 as stated: over a non-recursive call graph every successful inlining
\* step strictly reduces the number of call sites in the scope whose target
\* is a non-canonical member of the splitter-caller set.
C17_Original ==
    [][ (NonRecursive /\ InlineStep) => Sites(ScopeNextIns) < Sites(ScopeNowIns) ]_vars

\* C17 amended: the step takes one such call site away and adds those of the
\* callee's body, so the number may stay or grow; what strictly decreases,
\* by one, is the number of call sites weighted by the work each stands for.
C17_WeightedSitesDecrease ==
    [][ (NonRecursive /\ InlineStep) =>
            /\ Sites(ScopeNextIns) =
                   Sites(ScopeNowIns) - 1 + Sites(Flatten(BodyOf(AtCursor)))
            /\ Measure(ScopeNextIns) = Measure(ScopeNowIns) - 1 ]_vars

C17_Witness ==
    /\ NonRecursive
    /\ pc = "done"
    /\ didInline
    /\ fbody["A"] = <<<<"B", "B">>>>
    /\ fbody["B"] = <<<<"S">>>>
    /\ EntryIns = <<"A">>
    /\ NowIns = <<BarrierIntrinsicName, BarrierIntrinsicName>>

\* f has no body and is no intrinsic
UndefinedFunc(f) == isDeclaration(f) /\ ~isIntrinsic(f)

\* the functions the finder met: those the scope calls along chains that do
\* not pass through the body of a splitter, and in function scope K itself
MetByFinder ==
    ClosureNS(CalledBy(ScopeEntryIns)) \cup (IF scope = "func" THEN {Kernel} ELSE {})

\* the finder's answer for f on its own
FinderOn(f) == fillFunction(f, {}, {}, MaxDepth)

\* C18 as stated: a declaration without a body that is no intrinsic is
\* warned about, is not added to the splitter-caller set and gets the result
\* false, whatever its annotation.
C18_Original ==
    (FinderReturned /\ NonRecursive) =>
        \A f \in MetByFinder :
            UndefinedFunc(f) =>
                /\ f \in warned
                /\ f \notin SplitterCallers
                /\ ~FinderOn(f).found

\* C18 amended: it is warned about in any case; it is left out with the
\* result false when it is not annotated as a splitter, and it is added with
\* the result true when it is.
C18_UndefinedWarnedSplitterAdded ==
    (FinderReturned /\ NonRecursive) =>
        /\ \A f \in MetByFinder :
               UndefinedFunc(f) =>
                   /\ f \in warned
                   /\ f \in SplitterCallers <=> isSplitterFunc(f)
                   /\ FinderOn(f).found <=> isSplitterFunc(f)
                   /\ FinderOn(f).warn = {f}
        /\ \A f \in warned : f \in MetByFinder /\ UndefinedFunc(f)

C18_Witness ==
    /\ FinderReturned
    /\ NonRecursive
    /\ fbody["S"] = <<>>
    /\ fbody["B"] = <<>>
    /\ warned = {"S", "B"}
    /\ "S" \in SplitterCallers
    /\ "B" \notin SplitterCallers
    /\ "intr" \notin warned

CycleReachable ==
    \E f \in MetByFinder \ splitters : f \in ClosureNS(Calls(f))

\* the finder was called in this invocation
FinderCalled ==
    /\ isKernelFunc(Kernel)
    /\ loopKind # "other"
    /\ pc # "start"

\* C20: the finder has no cycle protection: it returns if and only if no
\* such cycle can be reached from the scope, and with one in reach its
\* recursion never returns, a function being added to the set only after
\* the walk of its body has returned.
C20_FinderDivergesIffCycle ==
    FinderCalled =>
        /\ pc = "diverged" <=> CycleReachable
        /\ pc = "diverged" =>
              \A f \in MetByFinder \ splitters :
                  f \in ClosureNS(Calls(f)) => f \notin SplitterCallers

C20_Witness ==
    /\ FinderCalled
    /\ pc = "diverged"
    /\ scope = "loop"
    /\ fbody["A"] = <<<<"S">>, <<"B">>>>
    /\ fbody["B"] = <<<<"A">>>>
    /\ "S" \in SplitterCallers
    /\ "A" \notin SplitterCallers

\* the finder returned true: the inliner was entered
FinderFound == bi >= 1

\* the functions f calls directly, K taken with the body the finder walked
CalleesAtEntry(f) == IF f = Kernel THEN CalledBy(EntryIns) ELSE Calls(f)

\* C21: started on an empty set over a non-recursive call graph, the finder
\* returns true if and only if the set it leaves is not empty, and that set
\* is closed: every member that is no splitter has a body with a direct call
\* of a member, and a set that is not empty holds a splitter.
C21_FinderSetClosed ==
    (FinderReturned /\ NonRecursive) =>
        /\ FinderFound <=> SplitterCallers # {}
        /\ \A f \in SplitterCallers \ splitters :
               CalleesAtEntry(f) \cap SplitterCallers # {}
        /\ SplitterCallers # {} => SplitterCallers \cap splitters # {}

C21_Witness ==
    /\ FinderReturned
    /\ NonRecursive
    /\ FinderFound
    /\ scope = "loop"
    /\ SplitterCallers = {"A", "B", "S"}
    /\ fbody["A"] = <<<<"B", "B">>>>
    /\ "ind" \in Range(EntryLoopIns)

\* ----------------------------------------------- stdpar: std::copy_if
\* The parallel std::copy_if entry point. Iterators are positions, a range
\* is the sequence of its elements.
Values == {1, 2, 3}
Ranges == UNION {[1..n -> Values] : n \in 0..MaxLen}

\* std::distance(first, last), std::advance(it, n)
distance(range) == Len(range)
advance(it, n) == it + n

\* no pass invocation is in flight while the algorithm runs
PassIdle ==
    /\ fbody = [f \in Helpers |-> <<>>]
    /\ splitters = SplitterFuncs
    /\ isKernel = FALSE
    /\ noInline = {}
    /\ loopKind = "none"
    /\ entry = "legacy"
    /\ blocks = <<>>
    /\ nextId = 1
    /\ pc = "done"
    /\ scope = "none"
    /\ SplitterCallers = {}
    /\ L = <<>>
    /\ bi = 0 /\ ii = 0
    /\ bbChanged = FALSE /\ Changed = FALSE
    /\ ret = "false"
    /\ warned = {}
    /\ run = 1
    /\ entryBlocks = <<>>
    /\ didInline = FALSE /\ didReplace = FALSE
    /\ steps = 0

InitCopyIf ==
    /\ PassIdle
    /\ input \in Ranges
    /\ pred \in SUBSET Values
    /\ d_first \in 1..2
    /\ d_last = 0
    /\ cpc = "entry"

\* __hipsycl_stdpar_consume_sync(); get_queue(); auto d_last = d_first;
\* std::advance(d_last, std::distance(first, last));
CopyIfAdvance ==
    /\ cpc = "entry"
    /\ d_last' = advance(d_first, distance(input))
    /\ cpc' = "advanced"
    /\ UNCHANGED <<passVars, input, pred, d_first>>

\* hipsycl::algorithms::copy_if(q, first, last, d_first, pred): the kernel is
\* handed to the queue; nothing it does reaches d_last
CopyIfDispatch ==
    /\ cpc = "advanced"
    /\ cpc' = "copied"
    /\ UNCHANGED <<passVars, input, pred, d_first, d_last>>

\* __hipsycl_stdpar_optimizable_sync(q); return d_last;
CopyIfReturn ==
    /\ cpc = "copied"
    /\ cpc' = "returned"
    /\ UNCHANGED <<passVars, input, pred, d_first, d_last>>

NextCopyIf ==
    \/ CopyIfAdvance
    \/ CopyIfDispatch
    \/ CopyIfReturn

SpecCopyIf == InitCopyIf /\ [][NextCopyIf]_vars

\* number of elements of the input range the predicate accepts
NumAccepted == Len(SelectSeq(input, LAMBDA x : x \in pred))

\* C22: the parallel std::copy_if returns the iterator one past the last
\* element written, that is d_first advanced by the number of elements of
\* [first, last) that satisfy pred, for every input range and predicate.
C22_ReturnsPastLastWritten ==
    cpc = "returned" => d_last = advance(d_first, NumAccepted)
====
